---------------------------- MODULE Spec2Model ----------------------------
(***************************************************************************)
(* A model of azure.keyvault.keys.crypto._internal.rsa_key: the byte/int  *)
(* codec, RsaKey.from_jwk / to_jwk with the numeric accessors, and the     *)
(* cryptographic operations with their capability checks; and of           *)
(* azure.core.tracing.common.change_context.                               *)
(*                                                                         *)
(* Python values are modelled as follows.                                  *)
(*   bytes          a sequence of integers 0..255                          *)
(*   str (hex text) a sequence of one-character strings                    *)
(*   None           NoBytes for an optional bytes field, NoStr for an      *)
(*                  optional string, NoOps for an optional list            *)
(*   an exception   a result record whose err field names the exception    *)
(*                  class and whose msg field holds its message            *)
(***************************************************************************)
EXTENDS Integers, Sequences, FiniteSets, TLC

VARIABLES input, key, call, ret

\* The tracing state: the configured tracing implementation, the current span
\* of each implementation, the change_context blocks that are open (innermost
\* last), whether an exception is propagating, and the span accesses the last
\* step made.
VARIABLES settings, current_span, stack, exc, access

tracing == <<settings, current_span, stack, exc, access>>

vars == <<input, key, call, ret, settings, current_span, stack, exc, access>>

(***************************************************************************)
(* Bounds of the model.                                                    *)
(***************************************************************************)
\* Largest integer handed to _int_to_bytes by the codec specification.
MaxInt == 70000
\* Largest number of leading zero bytes put in front of a JWK field.
MaxPad == 1

(***************************************************************************)
(* Python results.                                                         *)
(***************************************************************************)
NoBytes == <<-1>>
NoStr == "None"
NoOps == <<"None">>

Ok(v) == [err |-> "", msg |-> "", val |-> v]
Raise(cls, m) == [err |-> cls, msg |-> m, val |-> NoStr]

\* None where Python has a span or None.
NoSpan == "None"

\* The tracing implementations (AbstractSpan subclasses) settings can name.
Impls == {"ImplA", "ImplB"}

\* No tracing implementation configured, no span current, no block open.
TracingIdle ==
    /\ settings = NoStr
    /\ current_span = [i \in Impls |-> NoSpan]
    /\ stack = <<>>
    /\ exc = FALSE
    /\ access = <<>>

\* Python truthiness of an optional bytes value: None and b"" are falsy.
Truthy(b) == b # NoBytes /\ b # <<>>

(***************************************************************************)
(* The hex codec: hex(), codecs.encode(b, "hex"), codecs.decode(h, "hex"), *)
(* int(s, 16) of the Python standard library, as used by the two module    *)
(* functions.                                                              *)
(***************************************************************************)
HexChars == <<"0", "1", "2", "3", "4", "5", "6", "7",
              "8", "9", "a", "b", "c", "d", "e", "f">>

HexChar(v) == HexChars[v + 1]

HexVal(c) == (CHOOSE k \in 1..16 : HexChars[k] = c) - 1

RECURSIVE HexDigits(_)
HexDigits(i) ==
    IF i < 16 THEN <<HexChar(i)>>
    ELSE Append(HexDigits(i \div 16), HexChar(i % 16))

\* hex(i) for i >= 0: "0x" followed by the digits, no leading zero digit (the
\* Python 3 form: no "L" suffix, so the strip below finds nothing to drop).
hex(i) == <<"0", "x">> \o HexDigits(i)

\* h.strip("L"): drop every leading and trailing "L".
RECURSIVE LStrip(_)
LStrip(h) == IF h # <<>> /\ Head(h) = "L" THEN LStrip(Tail(h)) ELSE h

RECURSIVE RStrip(_)
RStrip(h) ==
    IF h # <<>> /\ h[Len(h)] = "L" THEN RStrip(SubSeq(h, 1, Len(h) - 1)) ELSE h

StripL(h) == RStrip(LStrip(h))

\* codecs.decode(h, "hex") for h of even length: one byte per two digits.
RECURSIVE HexDecode(_)
HexDecode(h) ==
    IF h = <<>> THEN <<>>
    ELSE <<16 * HexVal(h[1]) + HexVal(h[2])>> \o HexDecode(SubSeq(h, 3, Len(h)))

\* codecs.encode(b, "hex"): two digits per byte.
RECURSIVE HexEncode(_)
HexEncode(b) ==
    IF b = <<>> THEN <<>>
    ELSE <<HexChar(Head(b) \div 16), HexChar(Head(b) % 16)>> \o HexEncode(Tail(b))

\* int(s, 16) for a non-empty digit string.
RECURSIVE ParseHex(_)
ParseHex(s) ==
    IF Len(s) = 1 THEN HexVal(s[1])
    ELSE 16 * ParseHex(SubSeq(s, 1, Len(s) - 1)) + HexVal(s[Len(s)])

\* _bytes_to_int(b); int("", 16) raises ValueError, which no caller reaches:
\* every call site passes a truthy bytes value.
bytes_to_int(b) == ParseHex(HexEncode(b))

\* A bug the codec could have: the odd-length pad put behind the digits.
int_to_bytes_PadRight(i) ==
    LET h0 == hex(i)
        h1 == IF Len(h0) > 1 /\ SubSeq(h0, 1, 2) = <<"0", "x">>
              THEN SubSeq(h0, 3, Len(h0)) ELSE h0
        h2 == StripL(h1)
        h3 == IF Len(h2) % 2 # 0 THEN h2 \o <<"0">> ELSE h2
    IN  HexDecode(h3)

\* _int_to_bytes(i)
int_to_bytes(i) ==
    LET h0 == hex(i)
        h1 == IF Len(h0) > 1 /\ SubSeq(h0, 1, 2) = <<"0", "x">>
              THEN SubSeq(h0, 3, Len(h0)) ELSE h0
        h2 == StripL(h1)
        h3 == IF Len(h2) % 2 # 0 THEN <<"0">> \o h2 ELSE h2
    IN  HexDecode(h3)

(***************************************************************************)
(* The codec specification: _int_to_bytes applied to an integer, then      *)
(* _bytes_to_int applied to the bytes it returned.                         *)
(***************************************************************************)
NoCall == [op |-> "none", args |-> <<>>]
NoKey == [exists |-> FALSE]
NoInput == [kind |-> "none"]

InitCodec ==
    /\ input \in {[kind |-> "int", i |-> i] : i \in 0..MaxInt}
    /\ key = NoKey
    /\ call = NoCall
    /\ ret = Ok(NoStr)
    /\ TracingIdle

CodecEncode ==
    /\ input.kind = "int"
    /\ call = NoCall
    /\ call' = [op |-> "_int_to_bytes", args |-> <<input.i>>]
    /\ ret' = Ok(int_to_bytes(input.i))
    /\ UNCHANGED <<input, key, tracing>>

CodecDecode ==
    /\ call.op = "_int_to_bytes"
    /\ call' = [op |-> "_bytes_to_int", args |-> <<ret.val>>]
    /\ ret' = Ok(bytes_to_int(ret.val))
    /\ UNCHANGED <<input, key, tracing>>

NextCodec == CodecEncode \/ CodecDecode

SpecCodec == InitCodec /\ [][NextCodec]_vars

\* C1: for every non-negative integer i, including 0 and the values whose hex
\* form has an odd number of digits, _bytes_to_int(_int_to_bytes(i)) = i.
C1_CodecRoundTrip ==
    call.op = "_bytes_to_int" => (ret.err = "" /\ ret.val = input.i)

\* C1 witness: a round trip has completed on 2753 = 0xac1, whose hex form has an
\* odd number of digits and was padded to the two bytes 0x0a 0xc1.
C1_Witness ==
    /\ call.op = "_bytes_to_int"
    /\ input.i = 2753
    /\ call.args[1] = <<10, 193>>
    /\ ret.val = 2753


(***************************************************************************)
(* The RSA primitives of the cryptography package, as far as rsa_key.py    *)
(* uses them.  RSAPublicNumbers has the attributes n and e only;           *)
(* RSAPrivateNumbers has p, q, d, dmp1, dmq1, iqmp and public_numbers.     *)
(***************************************************************************)
RSAPublicNumbers(n, e) == [n |-> n, e |-> e]

RSAPrivateNumbers(p, q, d, dmp1, dmq1, iqmp, public_numbers) ==
    [p |-> p, q |-> q, d |-> d, dmp1 |-> dmp1, dmq1 |-> dmq1, iqmp |-> iqmp,
     public_numbers |-> public_numbers]

\* The CRT helpers: dmp1 = d mod (p-1), dmq1 = d mod (q-1), iqmp = q^-1 mod p.
rsa_crt_dmp1(private_exponent, p) == private_exponent % (p - 1)

rsa_crt_dmq1(private_exponent, q) == private_exponent % (q - 1)

rsa_crt_iqmp(p, q) == CHOOSE x \in 0..(p - 1) : (x * q) % p = 1 % p

\* numbers.public_key(backend) / numbers.private_key(backend): the backend either
\* builds the key object or rejects the numbers with a ValueError.  Which
\* combinations it rejects is the backend's business: backend_ok is its verdict.
BackendRejected == Raise("ValueError", "backend rejected the key numbers")

load_public_key(numbers, backend_ok) ==
    IF backend_ok THEN Ok([cls |-> "RSAPublicKey", numbers |-> numbers])
    ELSE BackendRejected

load_private_key(numbers, backend_ok) ==
    IF backend_ok THEN Ok([cls |-> "RSAPrivateKey", numbers |-> numbers])
    ELSE BackendRejected

\* getattr(obj, name): AttributeError when the object has no such attribute.
Getattr(obj, name) ==
    IF name \in DOMAIN obj THEN Ok(obj[name])
    ELSE Raise("AttributeError", name)

(***************************************************************************)
(* RsaKey                                                                  *)
(***************************************************************************)
PUBLIC_KEY_DEFAULT_OPS == <<"encrypt", "wrapKey", "verify">>

PRIVATE_KEY_DEFAULT_OPS ==
    <<"encrypt", "decrypt", "wrapKey", "unwrapKey", "verify", "sign">>

\* An RsaKey object after __init__ and the assignments of its constructor.
RsaKeyObject(kid, kty, key_ops, rsa_impl) ==
    [exists |-> TRUE, kid |-> kid, kty |-> kty, key_ops |-> key_ops,
     rsa_impl |-> rsa_impl]

JsonWebKey(kid, kty, key_ops, n, e) ==
    [kid |-> kid, kty |-> kty, key_ops |-> key_ops, n |-> n, e |-> e,
     p |-> NoBytes, q |-> NoBytes, d |-> NoBytes,
     dp |-> NoBytes, dq |-> NoBytes, qi |-> NoBytes]

is_private_key(self) == self.rsa_impl.cls = "RSAPrivateKey"

\* None where Python has an object or None.
NoObject == [cls |-> "NoneType"]

\* RsaKey.private_key
private_key(self) == IF is_private_key(self) THEN self.rsa_impl ELSE NoObject

\* RsaKey.public_key: the private key's public half, or the public key itself.
public_key(self) ==
    IF is_private_key(self)
    THEN [cls |-> "RSAPublicKey", numbers |-> self.rsa_impl.numbers.public_numbers]
    ELSE self.rsa_impl

\* RsaKey._public_key_material: an RSAPublicNumbers
public_key_material(self) == public_key(self).numbers

\* RsaKey._private_key_material: an RSAPrivateNumbers
private_key_material(self) ==
    IF private_key(self) # NoObject THEN private_key(self).numbers ELSE NoObject

\* _int_to_bytes applied to an attribute of a numbers object.
EncodeAttr(numbers, name) ==
    LET a == Getattr(numbers, name)
    IN  IF a.err # "" THEN a ELSE Ok(int_to_bytes(a.val))

RsaKey_n(self) == EncodeAttr(public_key_material(self), "n")

RsaKey_e(self) == EncodeAttr(public_key_material(self), "e")

RsaKey_p(self) ==
    IF is_private_key(self) THEN EncodeAttr(public_key_material(self), "p")
    ELSE Ok(NoBytes)

\* A bug the accessor could have: no is_private_key guard.
RsaKey_q_Unguarded(self) == EncodeAttr(private_key_material(self), "q")

RsaKey_q(self) ==
    IF is_private_key(self) THEN EncodeAttr(private_key_material(self), "q")
    ELSE Ok(NoBytes)

RsaKey_b(self) ==
    IF is_private_key(self) THEN EncodeAttr(private_key_material(self), "b")
    ELSE Ok(NoBytes)

RsaKey_d(self) ==
    IF is_private_key(self) THEN EncodeAttr(private_key_material(self), "d")
    ELSE Ok(NoBytes)

RsaKey_dq(self) ==
    IF is_private_key(self) THEN EncodeAttr(private_key_material(self), "dmq1")
    ELSE Ok(NoBytes)

RsaKey_dp(self) ==
    IF is_private_key(self) THEN EncodeAttr(private_key_material(self), "dmp1")
    ELSE Ok(NoBytes)

RsaKey_qi(self) ==
    IF is_private_key(self) THEN EncodeAttr(private_key_material(self), "iqmp")
    ELSE Ok(NoBytes)

PropertyNames == {"n", "e", "p", "q", "b", "d", "dq", "dp", "qi"}

\* Reading the property called name of an RsaKey.
Property(self, name) ==
    CASE name = "n" -> RsaKey_n(self)
      [] name = "e" -> RsaKey_e(self)
      [] name = "p" -> RsaKey_p(self)
      [] name = "q" -> RsaKey_q(self)
      [] name = "b" -> RsaKey_b(self)
      [] name = "d" -> RsaKey_d(self)
      [] name = "dq" -> RsaKey_dq(self)
      [] name = "dp" -> RsaKey_dp(self)
      [] name = "qi" -> RsaKey_qi(self)

(***************************************************************************)
(* RsaKey.from_jwk                                                         *)
(***************************************************************************)
MsgKeyType == "The specified jwk must have a key type of \"RSA\" or \"RSA-HSM\""

MsgKeyMaterial == "Invalid RSA jwk, both n and e must be have values"

\* A bug the validation could have: the n/e check made before the kty check.
from_jwk_validate_MaterialFirst(jwk) ==
    IF ~Truthy(jwk.n) \/ ~Truthy(jwk.e) THEN Raise("ValueError", MsgKeyMaterial)
    ELSE IF jwk.kty # "RSA" /\ jwk.kty # "RSA-HSM"
    THEN Raise("ValueError", MsgKeyType)
    ELSE Ok(NoStr)

\* The two checks that open from_jwk, in their order.
from_jwk_validate(jwk) ==
    IF jwk.kty # "RSA" /\ jwk.kty # "RSA-HSM" THEN Raise("ValueError", MsgKeyType)
    ELSE IF ~Truthy(jwk.n) \/ ~Truthy(jwk.e)
    THEN Raise("ValueError", MsgKeyMaterial)
    ELSE Ok(NoStr)

\* A bug the decision could have: the CRT fields asked for as well.
has_private_values_AllSix(jwk) ==
    /\ Truthy(jwk.p) /\ Truthy(jwk.q) /\ Truthy(jwk.d)
    /\ Truthy(jwk.dp) /\ Truthy(jwk.dq) /\ Truthy(jwk.qi)

\* "if jwk.p and jwk.q and jwk.d"
has_private_values(jwk) == Truthy(jwk.p) /\ Truthy(jwk.q) /\ Truthy(jwk.d)

\* A bug the completion could have: dq taken from the JWK only when dp is there.
private_numbers_from_jwk_DqFollowsDp(jwk, pub) ==
    LET p == bytes_to_int(jwk.p)
        q == bytes_to_int(jwk.q)
        d == bytes_to_int(jwk.d)
        dmp1 == IF Truthy(jwk.dp) THEN bytes_to_int(jwk.dp) ELSE rsa_crt_dmp1(d, p)
        dmq1 == IF Truthy(jwk.dq) /\ Truthy(jwk.dp) THEN bytes_to_int(jwk.dq)
                ELSE rsa_crt_dmq1(d, q)
        iqmp == IF Truthy(jwk.qi) THEN bytes_to_int(jwk.qi) ELSE rsa_crt_iqmp(p, q)
    IN  RSAPrivateNumbers(p, q, d, dmp1, dmq1, iqmp, pub)

\* The private branch of from_jwk up to the RSAPrivateNumbers it builds.
private_numbers_from_jwk(jwk, pub) ==
    LET p == bytes_to_int(jwk.p)
        q == bytes_to_int(jwk.q)
        d == bytes_to_int(jwk.d)
        dmp1 == IF Truthy(jwk.dp) THEN bytes_to_int(jwk.dp) ELSE rsa_crt_dmp1(d, p)
        dmq1 == IF Truthy(jwk.dq) THEN bytes_to_int(jwk.dq) ELSE rsa_crt_dmq1(d, q)
        iqmp == IF Truthy(jwk.qi) THEN bytes_to_int(jwk.qi) ELSE rsa_crt_iqmp(p, q)
    IN  RSAPrivateNumbers(p, q, d, dmp1, dmq1, iqmp, pub)

\* RsaKey.from_jwk(jwk); backend_ok is the backend's verdict on the numbers.
from_jwk(jwk, backend_ok) ==
    LET checked == from_jwk_validate(jwk)
    IN  IF checked.err # "" THEN checked
        ELSE
          LET pub == RSAPublicNumbers(bytes_to_int(jwk.n), bytes_to_int(jwk.e))
              key_impl ==
                IF has_private_values(jwk)
                THEN load_private_key(private_numbers_from_jwk(jwk, pub), backend_ok)
                ELSE load_public_key(pub, backend_ok)
          IN  IF key_impl.err # "" THEN key_impl
              ELSE Ok(RsaKeyObject(jwk.kid, jwk.kty, jwk.key_ops, key_impl.val))

(***************************************************************************)
(* RsaKey.to_jwk                                                           *)
(***************************************************************************)
\* The first exception among the results rs, in evaluation order, or Ok.
RECURSIVE FirstError(_)
FirstError(rs) ==
    IF rs = <<>> THEN Ok(NoStr)
    ELSE IF Head(rs).err # "" THEN Head(rs)
    ELSE FirstError(Tail(rs))

\* A bug the export could have: the key's own key_ops emitted for a public export.
to_jwk_key_ops_Own(self, include_private) == self.key_ops

\* "key_ops=self.key_ops if include_private else RsaKey.PUBLIC_KEY_DEFAULT_OPS"
to_jwk_key_ops(self, include_private) ==
    IF include_private THEN self.key_ops ELSE PUBLIC_KEY_DEFAULT_OPS

\* RsaKey.to_jwk(include_private): the properties are read in the order the
\* code names them, and the first one that raises ends the call.
to_jwk(self, include_private) ==
    LET n == RsaKey_n(self)
        e == RsaKey_e(self)
        q == RsaKey_q(self)
        p == RsaKey_p(self)
        d == RsaKey_d(self)
        dq == RsaKey_dq(self)
        dp == RsaKey_dp(self)
        qi == RsaKey_qi(self)
        pubErr == FirstError(<<n, e>>)
        privErr == FirstError(<<q, p, d, dq, dp, qi>>)
        jwk == JsonWebKey(self.kid, self.kty,
                          to_jwk_key_ops(self, include_private), n.val, e.val)
    IN  IF pubErr.err # "" THEN pubErr
        ELSE IF ~include_private THEN Ok(jwk)
        ELSE IF privErr.err # "" THEN privErr
        ELSE Ok([jwk EXCEPT !.q = q.val, !.p = p.val, !.d = d.val,
                            !.dq = dq.val, !.dp = dp.val, !.qi = qi.val])

(***************************************************************************)
(* The JWKs handed to from_jwk.  Each is built from a small RSA key        *)
(* (n = p*q, d*e = 1 mod lcm(p-1, q-1)); every field is then given a form:  *)
(* absent (None), empty (b""), or its big-endian bytes behind 0..MaxPad     *)
(* zero bytes.  dp, dq, qi may also hold a value that is not the one        *)
(* derived from p, q, d.                                                    *)
(***************************************************************************)
KeyTuples ==
    { [n |-> 33, e |-> 3, p |-> 3, q |-> 11, d |-> 7, dp |-> 1, dq |-> 7, qi |-> 2],
      [n |-> 3233, e |-> 17, p |-> 61, q |-> 53, d |-> 2753,
       dp |-> 53, dq |-> 49, qi |-> 38] }

\* The minimal big-endian bytes of v.
RECURSIVE BigEndian(_)
BigEndian(v) ==
    IF v < 256 THEN <<v>> ELSE Append(BigEndian(v \div 256), v % 256)

Zeros(k) == [x \in 1..k |-> 0]

Absent == -2
Empty == -1
Other == -3

\* The bytes of a field holding v in form f.
Form(v, f) ==
    CASE f = Absent -> NoBytes
      [] f = Empty -> <<>>
      [] f = Other -> BigEndian(v + 2)
      [] OTHER -> Zeros(f) \o BigEndian(v)

Jwk(kid, kty, key_ops, t, fn, fe, fp, fq, fd, fdp, fdq, fqi) ==
    [kid |-> kid, kty |-> kty, key_ops |-> key_ops,
     n |-> Form(t.n, fn), e |-> Form(t.e, fe),
     p |-> Form(t.p, fp), q |-> Form(t.q, fq), d |-> Form(t.d, fd),
     dp |-> Form(t.dp, fdp), dq |-> Form(t.dq, fdq), qi |-> Form(t.qi, fqi)]

PlainForms == Absent..MaxPad

CrtForms == {Other, Absent, Empty, 0}

\* JWKs of a valid key type with n and e present: the private fields vary.
PrivateJwks ==
    { Jwk("kid-1", "RSA", <<"sign", "decrypt">>, t, 0, 0, fp, fq, fd, fdp, fdq, fqi) :
        t \in {k \in KeyTuples : k.n > 255}, fp \in PlainForms, fq \in PlainForms, fd \in PlainForms,
        fdp \in CrtForms, fdq \in CrtForms, fqi \in CrtForms }

\* JWKs whose kid, kty, key_ops, n and e vary, with no or with all private fields.
PublicJwks ==
    { Jwk(kid, kty, key_ops, t, fn, fe, fpriv, fpriv, fpriv, fpriv, fpriv, fpriv) :
        kid \in {NoStr, "kid-1"}, kty \in {NoStr, "RSA", "RSA-HSM", "EC"},
        key_ops \in {NoOps, PRIVATE_KEY_DEFAULT_OPS},
        t \in KeyTuples, fn \in PlainForms, fe \in PlainForms,
        fpriv \in {Absent, MaxPad} }

ImportJwks == PrivateJwks \cup PublicJwks

(***************************************************************************)
(* The import specification: one from_jwk, then to_jwk and property reads  *)
(* on the key it returned.                                                 *)
(***************************************************************************)
Init ==
    /\ input = NoInput
    /\ key = NoKey
    /\ call = NoCall
    /\ ret = Ok(NoStr)
    /\ TracingIdle

\* key = RsaKey.from_jwk(jwk)
FromJwk(jwk, backend_ok) ==
    /\ input = NoInput
    /\ UNCHANGED tracing
    /\ input' = [kind |-> "jwk", jwk |-> jwk]
    /\ call' = [op |-> "from_jwk", args |-> <<>>]
    /\ LET r == from_jwk(jwk, backend_ok)
       IN  /\ ret' = r
           /\ key' = IF r.err = "" THEN r.val ELSE NoKey

\* key.to_jwk(include_private)
ToJwk(include_private) ==
    /\ key.exists
    /\ call' = [op |-> "to_jwk", args |-> <<include_private>>]
    /\ ret' = to_jwk(key, include_private)
    /\ UNCHANGED <<input, key, tracing>>

\* key.n, key.e, key.p, ...: every property is read, each read ending in a
\* value or an exception of its own.
ReadProperties ==
    /\ key.exists
    /\ call' = [op |-> "properties", args |-> <<>>]
    /\ ret' = Ok([name \in PropertyNames |-> Property(key, name)])
    /\ UNCHANGED <<input, key, tracing>>

NextImport ==
    \/ \E jwk \in ImportJwks, backend_ok \in BOOLEAN : FromJwk(jwk, backend_ok)
    \/ \E include_private \in BOOLEAN : ToJwk(include_private)
    \/ ReadProperties

SpecImport == Init /\ [][NextImport]_vars

(***************************************************************************)
(* Algorithms.  Each algorithm class has a name; rsa_key.py refers to the  *)
(* classes, the catalog gives their names.                                 *)
(***************************************************************************)
Rsa1_5 == "RSA1_5"
RsaOaep == "RSA-OAEP"
RsaOaep256 == "RSA-OAEP-256"
Ps256 == "PS256"
Ps384 == "PS384"
Ps512 == "PS512"
Rs256 == "RS256"
Rs384 == "RS384"
Rs512 == "RS512"

supported_encryption_algorithms == {Rsa1_5, RsaOaep, RsaOaep256}

supported_key_wrap_algorithms == {Rsa1_5, RsaOaep, RsaOaep256}

supported_signature_algorithms == {Ps256, Ps384, Ps512, Rs256, Rs384, Rs512}

\* A bug the default could have: another member of the catalog.
default_encryption_algorithm_Rsa15(self) == Rsa1_5

default_encryption_algorithm(self) == RsaOaep

default_key_wrap_algorithm(self) == RsaOaep

default_signature_algorithm(self) == Rs256

\* Key._get_algorithm(op, **kwargs): the algorithm named by the caller if the
\* operation supports it, the operation's default when the caller names none.
get_algorithm(self, op, algorithm) ==
    LET default_algorithm ==
            CASE op \in {"encrypt", "decrypt"} -> default_encryption_algorithm(self)
              [] op \in {"wrapKey", "unwrapKey"} -> default_key_wrap_algorithm(self)
              [] op \in {"sign", "verify"} -> default_signature_algorithm(self)
        supported ==
            CASE op \in {"encrypt", "decrypt"} -> supported_encryption_algorithms
              [] op \in {"wrapKey", "unwrapKey"} -> supported_key_wrap_algorithms
              [] op \in {"sign", "verify"} -> supported_signature_algorithms
        name == IF algorithm = NoStr THEN default_algorithm ELSE algorithm
    IN  IF name \in supported THEN Ok(name)
        ELSE Raise("UnsupportedAlgorithm", name)

(***************************************************************************)
(* The cryptographic operations.  The transforms belong to the algorithm   *)
(* objects: outcome is what the transform did ("ok", or the exception it    *)
(* raised).  A result also records the algorithm the call resolved, NoStr   *)
(* when it ended before resolving one.                                      *)
(***************************************************************************)
Result(r, algorithm) ==
    [err |-> r.err, msg |-> r.msg, val |-> r.val, algorithm |-> algorithm]

\* algorithm.create_...(self._rsa_impl).transform(data) / .sign(digest)
Transform(what, algorithm, data, outcome) ==
    IF outcome = "ok" THEN Ok(<<what, algorithm, data>>)
    ELSE Raise(outcome, "raised by the transform")

\* An operation open to every key: resolve the algorithm, run the transform.
PublicOperation(self, op, what, data, algorithm, outcome) ==
    LET a == get_algorithm(self, op, algorithm)
    IN  IF a.err # "" THEN Result(a, NoStr)
        ELSE Result(Transform(what, a.val, data, outcome), a.val)

\* A bug a private operation could have: the algorithm resolved before the
\* private-key check.
PrivateOperation_ResolveFirst(self, op, what, data, algorithm, outcome) ==
    LET a == get_algorithm(self, op, algorithm)
    IN  IF a.err # "" THEN Result(a, NoStr)
        ELSE IF ~is_private_key(self)
        THEN Result(Raise("NotImplementedError",
                          "The current RsaKey does not support " \o what), a.val)
        ELSE Result(Transform(what, a.val, data, outcome), a.val)

\* An operation of private keys: the private-key check, then as above.
PrivateOperation(self, op, what, data, algorithm, outcome) ==
    IF ~is_private_key(self)
    THEN Result(Raise("NotImplementedError",
                      "The current RsaKey does not support " \o what), NoStr)
    ELSE PublicOperation(self, op, what, data, algorithm, outcome)

encrypt(self, plain_text, algorithm, outcome) ==
    PublicOperation(self, "encrypt", "encrypt", plain_text, algorithm, outcome)

decrypt(self, cipher_text, algorithm, outcome) ==
    PrivateOperation(self, "decrypt", "decrypt", cipher_text, algorithm, outcome)

sign(self, digest, algorithm, outcome) ==
    PrivateOperation(self, "sign", "sign", digest, algorithm, outcome)

wrap_key(self, k, algorithm, outcome) ==
    PublicOperation(self, "wrapKey", "wrap", k, algorithm, outcome)

unwrap_key(self, encrypted_key, algorithm, outcome) ==
    PrivateOperation(self, "unwrapKey", "unwrap", encrypted_key, algorithm, outcome)

\* A bug verify could have: InvalidSignature not caught.
verify_NoCatch(self, digest, signature, algorithm, outcome) ==
    LET a == get_algorithm(self, "verify", algorithm)
    IN  IF a.err # "" THEN Result(a, NoStr)
        ELSE IF outcome = "ok" THEN Result(Ok(TRUE), a.val)
        ELSE Result(Raise(outcome, "raised by signer.verify"), a.val)

\* RsaKey.verify: signer.verify returns None, raises InvalidSignature on a
\* mismatch, or raises something else.
verify(self, digest, signature, algorithm, outcome) ==
    LET a == get_algorithm(self, "verify", algorithm)
    IN  IF a.err # "" THEN Result(a, NoStr)
        ELSE IF outcome = "ok" THEN Result(Ok(TRUE), a.val)
        ELSE IF outcome = "InvalidSignature" THEN Result(Ok(FALSE), a.val)
        ELSE Result(Raise(outcome, "raised by signer.verify"), a.val)

\* RsaKey.generate(kid, kty, size, e): numbers is the key pair the backend drew.
generate(kid, kty, numbers) ==
    RsaKeyObject(IF kid = NoStr THEN "uuid4" ELSE kid, kty, PRIVATE_KEY_DEFAULT_OPS,
                 [cls |-> "RSAPrivateKey", numbers |-> numbers])

(***************************************************************************)
(* The operations specification: a key is imported or generated, then      *)
(* used.                                                                   *)
(***************************************************************************)
OpsJwks ==
    { Jwk("kid-1", kty, PRIVATE_KEY_DEFAULT_OPS, t, 0, 0,
          fpriv, fpriv, fpriv, fpriv, fpriv, fpriv) :
        kty \in {"RSA", "RSA-HSM"}, t \in KeyTuples, fpriv \in {Absent, 0} }

\* The algorithm argument: none, a name of the catalog, or an unknown name.
AlgorithmArgs ==
    {NoStr, "bogus"} \cup supported_encryption_algorithms
                     \cup supported_signature_algorithms

\* What a transform may do.
Outcomes == {"ok", "ValueError"}

VerifyOutcomes == {"ok", "InvalidSignature", "TypeError"}

Data == {<<>>, <<1, 2>>}

\* key = RsaKey.generate(kid)
Generate(kid, t) ==
    LET k == generate(kid, "RSA",
                      RSAPrivateNumbers(t.p, t.q, t.d, t.dp, t.dq, t.qi,
                                        RSAPublicNumbers(t.n, t.e)))
    IN  /\ input = NoInput
        /\ UNCHANGED tracing
        /\ input' = [kind |-> "generate"]
        /\ call' = [op |-> "generate", args |-> <<kid>>]
        /\ key' = k
        /\ ret' = Ok(k)

\* key.encrypt(data, algorithm=...)
Encrypt(data, algorithm, outcome) ==
    /\ key.exists
    /\ call' = [op |-> "encrypt", args |-> <<algorithm>>, outcome |-> outcome]
    /\ ret' = encrypt(key, data, algorithm, outcome)
    /\ UNCHANGED <<input, key, tracing>>

\* key.decrypt(data, algorithm=...)
Decrypt(data, algorithm, outcome) ==
    /\ key.exists
    /\ call' = [op |-> "decrypt", args |-> <<algorithm>>, outcome |-> outcome]
    /\ ret' = decrypt(key, data, algorithm, outcome)
    /\ UNCHANGED <<input, key, tracing>>

\* key.sign(data, algorithm=...)
Sign(data, algorithm, outcome) ==
    /\ key.exists
    /\ call' = [op |-> "sign", args |-> <<algorithm>>, outcome |-> outcome]
    /\ ret' = sign(key, data, algorithm, outcome)
    /\ UNCHANGED <<input, key, tracing>>

\* key.verify(data, signature, algorithm=...)
Verify(data, signature, algorithm, outcome) ==
    /\ key.exists
    /\ call' = [op |-> "verify", args |-> <<algorithm>>, outcome |-> outcome]
    /\ ret' = verify(key, data, signature, algorithm, outcome)
    /\ UNCHANGED <<input, key, tracing>>

\* key.wrap_key(data, algorithm=...)
WrapKey(data, algorithm, outcome) ==
    /\ key.exists
    /\ call' = [op |-> "wrap_key", args |-> <<algorithm>>, outcome |-> outcome]
    /\ ret' = wrap_key(key, data, algorithm, outcome)
    /\ UNCHANGED <<input, key, tracing>>

\* key.unwrap_key(data, algorithm=...)
UnwrapKey(data, algorithm, outcome) ==
    /\ key.exists
    /\ call' = [op |-> "unwrap_key", args |-> <<algorithm>>, outcome |-> outcome]
    /\ ret' = unwrap_key(key, data, algorithm, outcome)
    /\ UNCHANGED <<input, key, tracing>>

NextOps ==
    \/ \E jwk \in OpsJwks, backend_ok \in BOOLEAN : FromJwk(jwk, backend_ok)
    \/ \E kid \in {NoStr, "kid-2"}, t \in KeyTuples : Generate(kid, t)
    \/ \E data \in Data, a \in AlgorithmArgs, o \in Outcomes : Encrypt(data, a, o)
    \/ \E data \in Data, a \in AlgorithmArgs, o \in Outcomes : Decrypt(data, a, o)
    \/ \E data \in Data, a \in AlgorithmArgs, o \in Outcomes : Sign(data, a, o)
    \/ \E data \in Data, sig \in Data, a \in AlgorithmArgs, o \in VerifyOutcomes :
          Verify(data, sig, a, o)
    \/ \E data \in Data, a \in AlgorithmArgs, o \in Outcomes : WrapKey(data, a, o)
    \/ \E data \in Data, a \in AlgorithmArgs, o \in Outcomes : UnwrapKey(data, a, o)

SpecOps == Init /\ [][NextOps]_vars

(***************************************************************************)
(* Properties of import and export.                                        *)
(***************************************************************************)
\* The JWK the key was imported from.
J == input.jwk

\* The integer a bytes value stands for, big-endian.
RECURSIVE BytesValue(_)
BytesValue(b) ==
    IF b = <<>> THEN 0
    ELSE 256 * BytesValue(SubSeq(b, 1, Len(b) - 1)) + b[Len(b)]

\* b without its leading zero bytes (one byte is kept).
RECURSIVE StripLeadingZeros(_)
StripLeadingZeros(b) ==
    IF Len(b) > 1 /\ Head(b) = 0 THEN StripLeadingZeros(Tail(b)) ELSE b

PrivateFields == {"p", "q", "d", "dp", "dq", "qi"}

ValidKty == J.kty \in {"RSA", "RSA-HSM"}

ExportedPrivate == call.op = "to_jwk" /\ call.args[1]

ExportedPublic == call.op = "to_jwk" /\ ~call.args[1]

\* C2: a JWK of key type RSA or RSA-HSM with all of n, e, p, q, d, dp, dq, qi,
\* once imported, is exported by to_jwk(include_private=True) without an error
\* and with p, q, d, dp, dq, qi byte-identical to the JWK's.
C2_PrivateRoundTrip ==
    ( /\ ExportedPrivate
      /\ ValidKty
      /\ Truthy(J.n) /\ Truthy(J.e)
      /\ \A f \in PrivateFields : Truthy(J[f]) )
    => ( /\ ret.err = ""
         /\ \A f \in PrivateFields : ret.val[f] = J[f] )

\* C3 as stated: the public export of an imported JWK has n and e identical to
\* the JWK's, leading zero bytes included, and key_ops {encrypt, wrapKey, verify}.
C3_PublicRoundTripIdentical ==
    ExportedPublic
    => ( /\ ret.err = ""
         /\ ret.val.n = J.n
         /\ ret.val.e = J.e
         /\ ret.val.key_ops = PUBLIC_KEY_DEFAULT_OPS )

\* C3 amended: the public export of an imported JWK has n and e equal to the
\* JWK's n and e without their leading zero bytes (so identical when there are
\* none), and key_ops {encrypt, wrapKey, verify} whatever the JWK's key_ops.
C3_PublicRoundTripCanonical ==
    ExportedPublic
    => ( /\ ret.err = ""
         /\ ret.val.n = StripLeadingZeros(J.n)
         /\ ret.val.e = StripLeadingZeros(J.e)
         /\ ret.val.key_ops = PUBLIC_KEY_DEFAULT_OPS )

\* C3 witness: a public export of a key whose JWK had a leading zero byte in n
\* and key_ops other than the public default.
C3_Witness ==
    /\ ExportedPublic
    /\ Head(J.n) = 0
    /\ J.key_ops = PRIVATE_KEY_DEFAULT_OPS
    /\ ret.err = ""
    /\ ret.val.n # J.n
    /\ ret.val.key_ops = PUBLIC_KEY_DEFAULT_OPS

\* The JWK lacks at least one of p, q, d.
LacksPrivate == ~(Truthy(J.p) /\ Truthy(J.q) /\ Truthy(J.d))

C6_ImportValidation ==
    call.op = "from_jwk"
    => ( /\ ~ValidKty
            => (ret.err = "ValueError" /\ ret.msg = MsgKeyType /\ key = NoKey)
         /\ (ValidKty /\ (~Truthy(J.n) \/ ~Truthy(J.e)))
            => (ret.err = "ValueError" /\ ret.msg = MsgKeyMaterial /\ key = NoKey)
         /\ (ValidKty /\ Truthy(J.n) /\ Truthy(J.e))
            => ret.msg \notin {MsgKeyType, MsgKeyMaterial} )

\* C6 witness: a JWK of key type EC that also lacks n was refused for its key
\* type.
C6_Witness ==
    /\ call.op = "from_jwk"
    /\ J.kty = "EC" /\ J.n = NoBytes
    /\ ret.err = "ValueError" /\ ret.msg = MsgKeyType
    /\ key = NoKey

\* The private numbers of the imported key.
Numbers == key.rsa_impl.numbers

\* C9: when the JWK holds p, q and d, each of dp, dq, qi that it holds is the
\* key's dmp1, dmq1, iqmp as given (no check against p, q, d), and each one it
\* lacks is derived: dmp1 = d mod (p-1), dmq1 = d mod (q-1), iqmp*q = 1 mod p;
\* each field is decided on its own.
C9_CrtCompletion ==
    (input.kind = "jwk" /\ key.exists /\ Truthy(J.p) /\ Truthy(J.q) /\ Truthy(J.d))
    => LET p == BytesValue(J.p)
           q == BytesValue(J.q)
           d == BytesValue(J.d)
       IN  /\ is_private_key(key)
           /\ Numbers.p = p /\ Numbers.q = q /\ Numbers.d = d
           /\ Numbers.dmp1 = IF Truthy(J.dp) THEN BytesValue(J.dp) ELSE d % (p - 1)
           /\ Numbers.dmq1 = IF Truthy(J.dq) THEN BytesValue(J.dq) ELSE d % (q - 1)
           /\ IF Truthy(J.qi) THEN Numbers.iqmp = BytesValue(J.qi)
              ELSE (Numbers.iqmp * q) % p = 1

\* C9 witness: a key whose JWK had no dp, a dq that is not d mod (q-1), and no
\* qi: dmq1 is that dq, dmp1 and iqmp are derived.
C9_Witness ==
    /\ input.kind = "jwk" /\ key.exists
    /\ Truthy(J.p) /\ Truthy(J.q) /\ Truthy(J.d)
    /\ J.dp = NoBytes /\ Truthy(J.dq) /\ J.qi = <<>>
    /\ Numbers.dmq1 = BytesValue(J.dq)
    /\ Numbers.dmq1 # Numbers.d % (Numbers.q - 1)
    /\ Numbers.dmp1 = Numbers.d % (Numbers.p - 1)
    /\ (Numbers.iqmp * Numbers.q) % Numbers.p = 1

\* C10: a key returned by from_jwk is private iff the JWK holds non-empty p, q
\* and d.  Otherwise (whatever else the JWK holds) it is the public key of n and
\* e alone, is_private_key() is false and each of the properties p, q, d, dp,
\* dq, qi reads as None without raising.  kid, kty and key_ops are the JWK's.
C10_PrivateDecision ==
    (input.kind = "jwk" /\ key.exists)
    => ( /\ is_private_key(key) <=> (Truthy(J.p) /\ Truthy(J.q) /\ Truthy(J.d))
         /\ LacksPrivate
            => ( /\ ~is_private_key(key)
                 /\ key.rsa_impl =
                      [cls |-> "RSAPublicKey",
                       numbers |-> [n |-> BytesValue(J.n), e |-> BytesValue(J.e)]]
                 /\ call.op = "properties"
                    => \A f \in PrivateFields : ret.val[f] = Ok(NoBytes) )
         /\ key.kid = J.kid /\ key.kty = J.kty /\ key.key_ops = J.key_ops )

\* C10 witness: the properties were read on a key whose JWK had q, d, dp, dq and
\* qi but no p: it is public-only and p reads as None.
C10_Witness ==
    /\ input.kind = "jwk" /\ key.exists
    /\ J.p = NoBytes /\ \A f \in PrivateFields \ {"p"} : Truthy(J[f])
    /\ ~is_private_key(key)
    /\ call.op = "properties"
    /\ ret.val["p"] = Ok(NoBytes) /\ ret.val["qi"] = Ok(NoBytes)

(***************************************************************************)
(* Properties of the operations.                                           *)
(***************************************************************************)
NoAlgorithmGiven == call.args[1] = NoStr

EncryptionCalls == {"encrypt", "decrypt", "wrap_key", "unwrap_key"}

SignatureCalls == {"sign", "verify"}

PrivateCalls == {"decrypt", "sign", "unwrap_key"}

PublicCalls == {"encrypt", "wrap_key", "verify"}

\* The call got as far as resolving its algorithm.
Resolved == ret.algorithm # NoStr

\* C5 as stated: with no algorithm given, encrypt, decrypt, wrap_key and
\* unwrap_key resolve RSA-OAEP-256, sign and verify resolve RS256.
C5_DefaultsOaep256 ==
    /\ (call.op \in EncryptionCalls /\ NoAlgorithmGiven /\ Resolved)
       => ret.algorithm = "RSA-OAEP-256"
    /\ (call.op \in SignatureCalls /\ NoAlgorithmGiven /\ Resolved)
       => ret.algorithm = "RS256"

\* C5 amended: with no algorithm given, encrypt, decrypt, wrap_key and
\* unwrap_key resolve RSA-OAEP (not RSA-OAEP-256), sign and verify resolve RS256;
\* the call never ends for want of an algorithm.
C5_DefaultsOaep ==
    /\ (call.op \in EncryptionCalls /\ NoAlgorithmGiven /\ Resolved)
       => ret.algorithm = "RSA-OAEP"
    /\ (call.op \in SignatureCalls /\ NoAlgorithmGiven /\ Resolved)
       => ret.algorithm = "RS256"
    /\ (call.op \in EncryptionCalls \cup SignatureCalls /\ NoAlgorithmGiven)
       => ret.err # "UnsupportedAlgorithm"

\* C5 witness: a decrypt with no algorithm given went through on a private key.
C5_Witness ==
    /\ call.op = "decrypt" /\ NoAlgorithmGiven
    /\ is_private_key(key)
    /\ ret.err = "" /\ ret.algorithm = "RSA-OAEP"

\* C7: on a public-only key decrypt, sign and unwrap_key raise
\* NotImplementedError whatever the algorithm argument and before any algorithm
\* is resolved; on a private key they never raise it; encrypt, wrap_key and
\* verify never raise it on any key.
C7_CapabilityErrors ==
    /\ (call.op \in PrivateCalls /\ ~is_private_key(key))
       => (ret.err = "NotImplementedError" /\ ~Resolved)
    /\ (call.op \in PrivateCalls /\ is_private_key(key))
       => ret.err # "NotImplementedError"
    /\ call.op \in PublicCalls => ret.err # "NotImplementedError"

\* C7 witness: sign with an algorithm it does not support was refused on a
\* public-only key for want of a private key.
C7_Witness ==
    /\ call.op = "sign" /\ call.args[1] = "RSA-OAEP"
    /\ key.exists /\ ~is_private_key(key)
    /\ ret.err = "NotImplementedError"

\* C8: when the signature transform reports a mismatch verify returns False,
\* when it reports success verify returns True, on public-only and private keys
\* alike; any other exception, and an unsupported algorithm, is raised.
C8_VerifyNeverRaisesOnMismatch ==
    call.op = "verify"
    => IF call.args[1] \notin {NoStr} \cup supported_signature_algorithms
       THEN ret.err = "UnsupportedAlgorithm"
       ELSE /\ call.outcome = "InvalidSignature" => (ret.err = "" /\ ret.val = FALSE)
            /\ call.outcome = "ok" => (ret.err = "" /\ ret.val = TRUE)
            /\ call.outcome \notin {"ok", "InvalidSignature"}
               => ret.err = call.outcome

\* C8 witness: verify returned False for a mismatch on a public-only key.
C8_Witness ==
    /\ call.op = "verify" /\ call.outcome = "InvalidSignature"
    /\ key.exists /\ ~is_private_key(key)
    /\ ret.err = "" /\ ret.val = FALSE

(***************************************************************************)
(* azure.core.tracing.common.change_context, a generator-based context     *)
(* manager: entering a "with change_context(span):" block runs it up to    *)
(* its yield, leaving the block (normally or with an exception thrown in   *)
(* at the yield) runs the rest.                                            *)
(***************************************************************************)
\* Largest number of change_context blocks open at once.
MaxDepth == 3

Spans == {"s1", "s2"}

\* The value of a local variable that was never assigned.
Unbound == "unbound"

\* The generator took the else branch: it saved and set the current span.
Entered(frame) == frame.span_impl_type # NoStr /\ frame.span # NoSpan

\* change_context(span) up to its yield, with tracing_implementation what
\* settings.tracing_implementation() returns and cur the current spans: the
\* generator's locals, the current spans afterwards, the span accesses made.
change_context_enter(tracing_implementation, span, cur) ==
    LET span_impl_type == tracing_implementation
    IN  IF span_impl_type = NoStr \/ span = NoSpan
        THEN [frame |-> [span_impl_type |-> span_impl_type, span |-> span,
                         original_span |-> Unbound],
              current |-> cur,
              access |-> <<>>]
        ELSE [frame |-> [span_impl_type |-> span_impl_type, span |-> span,
                         original_span |-> cur[span_impl_type]],
              current |-> [cur EXCEPT ![span_impl_type] = span],
              access |-> <<"get_current_span", "set_current_span">>]

\* A bug the restore could have: no try/finally, so a block left by an
\* exception restores nothing.
change_context_exit_NoFinally(frame, cur, raising) ==
    IF ~Entered(frame) \/ raising
    THEN [current |-> cur, access |-> <<>>]
    ELSE [current |-> [cur EXCEPT ![frame.span_impl_type] = frame.original_span],
          access |-> <<"set_current_span">>]

\* change_context after its yield, the block having ended normally or (raising)
\* with an exception: the finally clause runs either way.
change_context_exit(frame, cur, raising) ==
    IF ~Entered(frame)
    THEN [current |-> cur, access |-> <<>>]
    ELSE [current |-> [cur EXCEPT ![frame.span_impl_type] = frame.original_span],
          access |-> <<"set_current_span">>]

\* The innermost open block.
Top == stack[Len(stack)]

\* with change_context(span): ... is entered.  Beside the generator's locals
\* the block remembers the current spans it was entered with.
Enter(span) ==
    /\ ~exc
    /\ Len(stack) < MaxDepth
    /\ LET r == change_context_enter(settings, span, current_span)
       IN  /\ stack' = Append(stack, [frame |-> r.frame, before |-> current_span])
           /\ current_span' = r.current
           /\ access' = r.access
    /\ UNCHANGED <<settings, exc, input, key, call, ret>>

\* The innermost block ends normally.
ExitNormally ==
    /\ ~exc
    /\ stack # <<>>
    /\ LET r == change_context_exit(Top.frame, current_span, FALSE)
       IN  /\ current_span' = r.current
           /\ access' = r.access
    /\ stack' = SubSeq(stack, 1, Len(stack) - 1)
    /\ UNCHANGED <<settings, exc, input, key, call, ret>>

\* The exception that is propagating leaves the innermost block.
ExitRaising ==
    /\ exc
    /\ stack # <<>>
    /\ LET r == change_context_exit(Top.frame, current_span, TRUE)
       IN  /\ current_span' = r.current
           /\ access' = r.access
    /\ stack' = SubSeq(stack, 1, Len(stack) - 1)
    /\ UNCHANGED <<settings, exc, input, key, call, ret>>

\* The code inside the innermost block raises.
BodyRaises ==
    /\ ~exc
    /\ stack # <<>>
    /\ exc' = TRUE
    /\ access' = <<>>
    /\ UNCHANGED <<settings, current_span, stack, input, key, call, ret>>

\* The code around the blocks left so far catches the exception.
BodyCatches ==
    /\ exc
    /\ exc' = FALSE
    /\ access' = <<>>
    /\ UNCHANGED <<settings, current_span, stack, input, key, call, ret>>

\* settings.tracing_implementation is set to impl (NoStr: none configured).
SetTracingImplementation(impl) ==
    /\ ~exc
    /\ settings # impl
    /\ settings' = impl
    /\ access' = <<>>
    /\ UNCHANGED <<current_span, stack, exc, input, key, call, ret>>

\* Code outside every change_context block makes span the current span of impl
\* (span_impl_type.set_current_span called by the tracing code itself).
SetCurrentSpan(impl, span) ==
    /\ ~exc
    /\ stack = <<>>
    /\ current_span[impl] # span
    /\ current_span' = [current_span EXCEPT ![impl] = span]
    /\ access' = <<>>
    /\ UNCHANGED <<settings, stack, exc, input, key, call, ret>>

NextTracing ==
    \/ \E span \in Spans \cup {NoSpan} : Enter(span)
    \/ ExitNormally
    \/ ExitRaising
    \/ BodyRaises
    \/ BodyCatches
    \/ \E impl \in Impls \cup {NoStr} : SetTracingImplementation(impl)
    \/ \E impl \in Impls, span \in Spans \cup {NoSpan} : SetCurrentSpan(impl, span)

SpecTracing == Init /\ [][NextTracing]_vars

\* A block entered with a tracing implementation configured and a span given.
WithSpan(block) == block.frame.span_impl_type # NoStr /\ block.frame.span # NoSpan

\* C11: when a tracing implementation is configured and span is not None,
\* entering the block makes span the current span of that implementation, it is
\* the current span whenever the block is the innermost one, and leaving the
\* block, normally or by an exception, puts back the spans that were current
\* when it was entered: nested blocks restore last in first out, and after the
\* outermost the spans are those before it.  When span is None or no
\* implementation is configured, entering and leaving the block neither reads nor
\* writes a current span.
C11_ChangeContextRestores ==
    [][ /\ Len(stack') = Len(stack) + 1
           => LET b == stack'[Len(stack')]
              IN  /\ b.before = current_span
                  /\ IF WithSpan(b)
                     THEN current_span' =
                            [current_span EXCEPT ![b.frame.span_impl_type] = b.frame.span]
                     ELSE current_span' = current_span /\ access' = <<>>
        /\ Len(stack') = Len(stack) - 1
           => IF WithSpan(Top)
              THEN current_span' = Top.before
              ELSE current_span' = current_span /\ access' = <<>>
        /\ (stack' # <<>> /\ WithSpan(stack'[Len(stack')]))
           => LET b == stack'[Len(stack')]
              IN  current_span'[b.frame.span_impl_type] = b.frame.span
      ]_vars

\* C11 witness: an exception has just left a block entered with a span (its
\* exit wrote the current span) inside another block entered with span s2 while
\* s1 was current: s2 is current again, and s1 is what the outer block will put
\* back.
C11_Witness ==
    /\ exc
    /\ Len(stack) = 1
    /\ WithSpan(stack[1])
    /\ access = <<"set_current_span">>
    /\ stack[1].frame.span = "s2"
    /\ stack[1].frame.original_span = "s1"
    /\ current_span[stack[1].frame.span_impl_type] = "s2"

=============================================================================
